---------------------------- MODULE Spec2Model ----------------------------
(***************************************************************************)
(* The data-store service (data-store.service.ts): schema-governed row     *)
(* validation on the write path, row normalization on the read path, and   *)
(* the orchestration around them (column edits, create/rename/delete).     *)
(*                                                                         *)
(* Cell values are tagged records [t, v]: t is the JavaScript runtime type *)
(* the code tests with typeof / instanceof / === null, v the payload as a  *)
(* string (a number by its decimal literal, a Date by its time value in    *)
(* milliseconds, "NaN" for the Invalid Date).                              *)
(*                                                                         *)
(* A row is the sequence of its [key, value] entries in Object.keys order. *)
(***************************************************************************)
EXTENDS Naturals, Sequences, FiniteSets

VARIABLES columns, write, read, deleted, stores, rename

vars == <<columns, write, read, deleted, stores, rename>>

(***************************************************************************)
(* Bounds of the model.                                                    *)
(***************************************************************************)
\* A batch of rows costs one per row plus one per cell; batches up to this
\* cost are the inputs of insertRows / upsertRows.
MaxBatchSize == 4

(***************************************************************************)
(* Values.                                                                 *)
(***************************************************************************)
Undefined == [t |-> "undefined", v |-> ""]
Null == [t |-> "null", v |-> ""]
Bool(b) == [t |-> "boolean", v |-> b]
Num(n) == [t |-> "number", v |-> n]
Str(s) == [t |-> "string", v |-> s]
DateOf(ms) == [t |-> "date", v |-> ms]

NaN == "NaN"
Iso0 == "1970-01-01T00:00:00.000Z"
Iso1 == "1970-01-01T00:00:00.001Z"
Iso2 == "1970-01-01T00:00:00.002Z"

ColumnTypes == {"boolean", "date", "string", "number"}

\* Date.prototype.toISOString on a valid time value (line 249); on the
\* Invalid Date it throws a RangeError, which validateRows lets escape.
toISOString(ms) ==
  CASE ms = "0" -> Iso0
    [] ms = "1" -> Iso1
    [] ms = "2" -> Iso2

\* Date.parse on the strings of the model, as far as ECMA-262 fixes it: the
\* ISO format is parsed, any other string is left to the engine (legacy).
IsoStrings == {Iso0, Iso1, Iso2}
LegacyStrings == {"0", "1", "yes"}
LegacyTimes == {NaN, "946684800000"}
EngineParsers == [LegacyStrings -> LegacyTimes]

DateParse(s, legacy) ==
  CASE s = Iso0 -> "0"
    [] s = Iso1 -> "1"
    [] s = Iso2 -> "2"
    [] OTHER -> legacy[s]

\* new Date(value) for a string or a number (line 201).
NewDate(value, legacy) ==
  IF value.t = "number" THEN DateOf(value.v) ELSE DateOf(DateParse(value.v, legacy))

\* String(value) for a value that is neither null, undefined nor a string
\* (line 210). A Date prints to the second in the process's time zone (UTC
\* here), so the model's three instants print alike.
StringOf(value) ==
  CASE value.t = "boolean" -> value.v
    [] value.t = "number" -> value.v
    [] value.t = "date" ->
         IF value.v = NaN THEN "Invalid Date"
         ELSE "Thu Jan 01 1970 00:00:00 GMT+0000 (Coordinated Universal Time)"

\* Number(value) for a value that is neither null, undefined nor a number
\* (line 216): the numeric value as a decimal literal, or NaN.
ToNumber(value) ==
  CASE value.t = "boolean" -> IF value.v = "true" THEN "1" ELSE "0"
    [] value.t = "date" -> value.v
    [] value.t = "string" ->
         IF value.v \in {"0", "1", "2"} THEN value.v ELSE NaN

(***************************************************************************)
(* Schema and rows.                                                        *)
(***************************************************************************)
Column(name, type) == [id |-> name, name |-> name, type |-> type]

columnNames(cols) == {cols[i].name : i \in 1..Len(cols)}

\* columnTypeMap.get(key) / typeMap.get(key): undefined for an unknown key.
typeOf(cols, key) ==
  IF key \in columnNames(cols)
  THEN (CHOOSE c \in {cols[i] : i \in 1..Len(cols)} : c.name = key).type
  ELSE "undefined"

Cell(key, value) == [key |-> key, value |-> value]

(***************************************************************************)
(* Row Validator (write path).                                             *)
(***************************************************************************)
NoValue == [t |-> "none", v |-> ""]
NoError == [kind |-> "none", msg |-> "", value |-> NoValue, type |-> ""]
UserError(msg) == [kind |-> "UserError", msg |-> msg, value |-> NoValue, type |-> ""]
\* `value '${cell}' does not match column type '${type}'`
TypeMismatch(cell, type) ==
  [kind |-> "UserError", msg |-> "does not match column type", value |-> cell, type |-> type]
\* cell.toISOString() on the Invalid Date: "RangeError: Invalid time value".
RangeError == [kind |-> "RangeError", msg |-> "Invalid time value", value |-> NoValue, type |-> ""]

NoColumnsFound == UserError("No columns found for this data store or data store not found")
MismatchedKeyCount == UserError("mismatched key count")
UnknownColumnName == UserError("unknown column name")

\* The type check of a cell under a declared key: null passes, a Date in a
\* 'date' column is replaced by its ISO string.
validateTyped(cols, key, cell) ==
  IF cell = Null THEN [err |-> NoError, value |-> cell]
  ELSE LET type == typeOf(cols, key) IN
    CASE type = "boolean" ->
           IF cell.t # "boolean" THEN [err |-> TypeMismatch(cell, "boolean"), value |-> cell]
           ELSE [err |-> NoError, value |-> cell]
      [] type = "date" ->
           IF cell.t # "date" THEN [err |-> TypeMismatch(cell, "date"), value |-> cell]
           ELSE IF cell.v = NaN THEN [err |-> RangeError, value |-> cell]
           ELSE [err |-> NoError, value |-> Str(toISOString(cell.v))]
      [] type = "string" ->
           IF cell.t # "string" THEN [err |-> TypeMismatch(cell, "string"), value |-> cell]
           ELSE [err |-> NoError, value |-> cell]
      [] type = "number" ->
           IF cell.t # "number" THEN [err |-> TypeMismatch(cell, "number"), value |-> cell]
           ELSE [err |-> NoError, value |-> cell]
      [] OTHER -> [err |-> NoError, value |-> cell]

\* Faulty variant: the columnNames.has(key) check is missing.
validateCell_NoUnknownCheck(cols, key, cell) ==
  IF key \notin columnNames(cols) THEN [err |-> NoError, value |-> cell]
  ELSE validateTyped(cols, key, cell)

\* One cell of a row (the body of the loop over keys): the error it throws,
\* or the value row[key] holds afterwards.
validateCell(cols, key, cell) ==
  IF key \notin columnNames(cols) THEN [err |-> UnknownColumnName, value |-> cell]
  ELSE validateTyped(cols, key, cell)

\* The loop over the keys of one row, from key i on; row is the row object
\* as the earlier keys left it.
RECURSIVE validateKeys(_, _, _)
validateKeys(cols, row, i) ==
  IF i > Len(row) THEN [err |-> NoError, row |-> row]
  ELSE LET c == validateCell(cols, row[i].key, row[i].value) IN
    IF c.err # NoError THEN [err |-> c.err, row |-> row]
    ELSE validateKeys(cols, [row EXCEPT ![i].value = c.value], i + 1)

\* Faulty variant: the key count of the row is not compared with the column count.
validateRow_NoCountCheck(cols, row) == validateKeys(cols, row, 1)

validateRow(cols, row) ==
  IF Len(cols) # Len(row) THEN [err |-> MismatchedKeyCount, row |-> row]
  ELSE validateKeys(cols, row, 1)

\* Faulty variant: the loop over the rows ends after its first round.
validateFrom_FirstRowOnly(cols, rows, r) ==
  IF r > Len(rows) THEN [err |-> NoError, rows |-> rows]
  ELSE LET one == validateRow(cols, rows[r]) IN
       [err |-> one.err, rows |-> [rows EXCEPT ![r] = one.row]]

\* The loop over the rows, from row r on; rows is the batch as the earlier
\* rows left it.
RECURSIVE validateFrom(_, _, _)
validateFrom(cols, rows, r) ==
  IF r > Len(rows) THEN [err |-> NoError, rows |-> rows]
  ELSE LET one == validateRow(cols, rows[r]) IN
    IF one.err # NoError THEN [err |-> one.err, rows |-> [rows EXCEPT ![r] = one.row]]
    ELSE validateFrom(cols, [rows EXCEPT ![r] = one.row], r + 1)

\* validateRows on the schema getColumns returned: the error thrown (NoError
\* when it returns) and the caller's batch as the call leaves it.
validateRows(cols, rows) ==
  IF Len(cols) = 0 THEN [err |-> NoColumnsFound, rows |-> rows]
  ELSE validateFrom(cols, rows, 1)


(***************************************************************************)
(* Type Coercion Rules and Row Normalizer (read path).                     *)
(***************************************************************************)
\* Faulty variant: a raw value that is no boolean is taken by its truthiness.
normalizeBoolean_Truthy(value) ==
  IF value.t = "boolean" THEN value
  ELSE IF value \in {Null, Undefined, Num("0"), Str(""), DateOf(NaN)} THEN Bool("false")
  ELSE Bool("true")

normalizeBoolean(value) ==
  IF value.t = "boolean" THEN value
  ELSE IF value = Num("1") \/ value = Str("1") THEN Bool("true")
  ELSE IF value = Num("0") \/ value = Str("0") THEN Bool("false")
  ELSE Null

\* legacy: what the engine's Date.parse makes of a non-ISO string.
normalizeDate(value, legacy) ==
  IF value = Null \/ value = Undefined THEN Null
  ELSE IF value.t = "date" THEN value
  ELSE IF value.t = "string" \/ value.t = "number"
    THEN LET parsed == NewDate(value, legacy) IN
         IF parsed.v # NaN THEN parsed ELSE Null
  ELSE Null

normalizeString(value) ==
  IF value = Null \/ value = Undefined THEN Null
  ELSE IF value.t = "string" THEN value
  ELSE Str(StringOf(value))

\* Faulty variant: a raw value that is no number is not parsed.
normalizeNumber_Strict(value) ==
  IF value.t = "number" THEN value ELSE Null

normalizeNumber(value) ==
  IF value = Null \/ value = Undefined THEN Null
  ELSE IF value.t = "number" THEN value
  ELSE LET num == ToNumber(value) IN
       IF num = NaN THEN Null ELSE Num(num)

\* The switch over typeMap.get(key) for one entry of a row.
normalizeCell(cols, key, value, legacy) ==
  LET type == typeOf(cols, key) IN
  CASE type = "boolean" -> normalizeBoolean(value)
    [] type = "date" -> normalizeDate(value, legacy)
    [] type = "string" -> normalizeString(value)
    [] type = "number" -> normalizeNumber(value)
    [] OTHER -> value

normalizeRows(rows, cols, legacy) ==
  [r \in 1..Len(rows) |->
    [i \in 1..Len(rows[r]) |->
      Cell(rows[r][i].key, normalizeCell(cols, rows[r][i].key, rows[r][i].value, legacy))]]

(***************************************************************************)
(* Inputs: the requests the callers send.                                  *)
(***************************************************************************)
SchemaNames == {"a", "b"}
RowKeys == {"a", "b", "c"}
RowValues == {Null, Bool("true"), Num("1"), Str("1"), DateOf("0"), DateOf(NaN)}

\* The rows over the given keys and values with n entries, the keys distinct
\* (an object holds a key once), in every key order.
RowsOfLen(keys, values, n) ==
  {row \in [1..n -> {Cell(k, v) : k \in keys, v \in values}] :
     \A i, j \in 1..n : i # j => row[i].key # row[j].key}

\* The batches of cost at most n: a row costs one plus one per entry.
RECURSIVE BatchesUpTo(_, _, _)
BatchesUpTo(keys, values, n) ==
  {<<>>} \cup
  UNION {{<<row>> \o rest : row \in RowsOfLen(keys, values, len),
                            rest \in BatchesUpTo(keys, values, n - 1 - len)} :
         len \in {l \in 0..Cardinality(keys) : l + 1 <= n}}

Batches == BatchesUpTo(RowKeys, RowValues, MaxBatchSize)

\* The schemas a data store can have: columns of distinct names, in any order.
Schemas ==
  UNION {{cols \in [1..n -> {Column(name, type) : name \in SchemaNames, type \in ColumnTypes}] :
            \A i, j \in 1..n : i # j => cols[i].name # cols[j].name} :
         n \in 0..Cardinality(SchemaNames)}


(***************************************************************************)
(* State.                                                                  *)
(*   stores   the data stores of the metadata repository                   *)
(*   columns  the column list of DataStore, as getColumns returns it       *)
(*   write    the latest insertRows / upsertRows request: where it stands, *)
(*            the batch as the caller sent it (input) and as the caller    *)
(*            holds it now (rows), the schema validateRows fetched (vcols),*)
(*            the error thrown, and the call made on the row repository    *)
(*   read     the latest getManyRowsAndCount: the page the row repository  *)
(*            returned (raw) and the response (data)                       *)
(*   deleted  the column names a deleteColumn has removed and no addColumn  *)
(*            has added again since                                        *)
(*   rename   per client, its createDataStore / updateDataStore /          *)
(*            deleteDataStore request in flight                            *)
(***************************************************************************)
\* The data store the row and column requests of the model address.
DataStore == [id |-> 1, name |-> "orders", projectId |-> "P1"]

NoCall == [made |-> FALSE, rows |-> <<>>, columns |-> <<>>]
NoWrite ==
  [pc |-> "idle", op |-> "none", input |-> <<>>, rows |-> <<>>, vcols |-> <<>>,
   err |-> NoError, call |-> NoCall, deletedBefore |-> {}]
NoRead == [done |-> FALSE, src |-> 0, raw |-> <<>>, data |-> <<>>, count |-> 0, cols |-> <<>>]

\* validateDataStoreExists: findOneBy({id}) and the throw when it is null.
validateDataStoreExists(dataStoreId) == \E s \in stores : s.id = dataStoreId

(***************************************************************************)
(* insertRows / upsertRows. Each awaits validateRows (which awaits          *)
(* getColumns and then checks the batch synchronously), then awaits a       *)
(* second getColumns and calls the row repository with its result. Other    *)
(* requests run between the two steps.                                      *)
(***************************************************************************)
\* No request is in flight: the next one can be sent.
Idle == write.pc = "idle" /\ ~read.done

writeValidate(op, rows) ==
  /\ Idle
  /\ LET checked == validateRows(columns, rows) IN
     write' = [pc |-> IF checked.err = NoError THEN "validated" ELSE "failed",
               op |-> op, input |-> rows, rows |-> checked.rows, vcols |-> columns,
               err |-> checked.err, call |-> NoCall, deletedBefore |-> deleted]
  /\ read' = NoRead
  /\ UNCHANGED <<columns, deleted, stores, rename>>

writeStore(op) ==
  /\ write.pc = "validated"
  /\ write.op = op
  /\ write' = [write EXCEPT !.pc = "done",
                            !.call = [made |-> TRUE, rows |-> write.rows, columns |-> columns]]
  /\ UNCHANGED <<columns, read, deleted, stores, rename>>

\* The promise of the latest request settles (the batch was stored, the
\* error reached the caller, or the page was returned): the next request is
\* the latest one from then on.
requestReturns ==
  /\ write.pc \in {"failed", "done"} \/ read.done
  /\ write.pc # "validated"
  /\ write' = NoWrite
  /\ read' = NoRead
  /\ UNCHANGED <<columns, deleted, stores, rename>>

insertRowsValidate(rows) == writeValidate("insert", rows)
insertRowsStore == writeStore("insert")
upsertRowsValidate(dto) == writeValidate("upsert", dto.rows)
upsertRowsStore == writeStore("upsert")

\* The upsert requests: the rows and the match instructions, which the
\* service hands on unread.
UpsertDtos(batches) == {[rows |-> rows, matchFields |-> <<"a">>] : rows \in batches}

(***************************************************************************)
(* getManyRowsAndCount. The row repository is outside this file: it returns *)
(* a page of the rows it holds, each cell in a representation of the        *)
(* backing engine's choosing.                                               *)
(***************************************************************************)
\* The representations an engine may return for a cell stored under a
\* column of the given type.
RawReps(type, stored) ==
  IF stored = Null THEN {Null}
  ELSE CASE type = "boolean" /\ stored.t = "boolean" ->
              IF stored = Bool("true") THEN {stored, Num("1"), Str("1")}
              ELSE {stored, Num("0"), Str("0")}
         [] type = "number" /\ stored.t = "number" -> {stored, Str(stored.v)}
         [] type = "date" /\ stored.t = "string" /\ stored.v \in IsoStrings ->
              LET ms == CHOOSE t \in {"0", "1", "2"} : toISOString(t) = stored.v IN
              {stored, DateOf(ms), Num(ms)}
         [] OTHER -> {stored}

RECURSIVE RawRowReps(_, _)
RawRowReps(cols, row) ==
  IF row = <<>> THEN {<<>>}
  ELSE {<<Cell(Head(row).key, v)>> \o rest :
          v \in RawReps(typeOf(cols, Head(row).key), Head(row).value),
          rest \in RawRowReps(cols, Tail(row))}

\* Rows already in the table when nothing has been written in this run: one
\* cell each, of any value an engine can return.
RawValues ==
  {Undefined, Null, Bool("true"), Bool("false"), Num("0"), Num("1"), Num("2"),
   Str("0"), Str("1"), Str("yes"), Str(Iso0), DateOf("0"), DateOf(NaN)}
RawRows == {<<Cell(k, v)>> : k \in RowKeys, v \in RawValues}

\* The pages getManyAndCount(toTableName(dataStoreId), options) can return:
\* [src: the index of the row read back (0: a row that was there before),
\*  row: its raw form, count].
Pages ==
  IF write.call.made
  THEN UNION {{[src |-> i, row |-> raw, count |-> Len(write.call.rows)] :
                 raw \in RawRowReps(write.call.columns, write.call.rows[i])} :
              i \in 1..Len(write.call.rows)}
  ELSE IF write.pc = "idle"
  THEN {[src |-> 0, row |-> raw, count |-> 1] : raw \in RawRows}
  ELSE {}

getManyRowsAndCount(page, legacy) ==
  /\ write.pc # "validated" /\ ~read.done
  /\ read' = [done |-> TRUE, src |-> page.src, raw |-> <<page.row>>,
              data |-> normalizeRows(<<page.row>>, columns, legacy),
              count |-> page.count, cols |-> columns]
  /\ UNCHANGED <<columns, write, deleted, stores, rename>>


(***************************************************************************)
(* Column edits. The column repository is outside this file: add appends   *)
(* a column of a name the store does not have yet, move puts a column at   *)
(* the target index, delete removes it.                                    *)
(***************************************************************************)
EditTypes == {"boolean", "date"}
AddColumnDtos == {[name |-> n, type |-> t] : n \in SchemaNames, t \in EditTypes}
EditValues == {Bool("true"), DateOf("0")}
EditBatches == BatchesUpTo(SchemaNames, EditValues, MaxBatchSize)

Without(cols, columnId) == SelectSeq(cols, LAMBDA c : c.id # columnId)

repoAddColumn(cols, dto) == Append(cols, Column(dto.name, dto.type))

repoMoveColumn(cols, columnId, targetIndex) ==
  LET col == CHOOSE c \in {cols[i] : i \in 1..Len(cols)} : c.id = columnId
      rest == Without(cols, columnId)
  IN SubSeq(rest, 1, targetIndex) \o <<col>> \o SubSeq(rest, targetIndex + 1, Len(rest))

repoDeleteColumn(cols, column) == Without(cols, column.id)

addColumn(dataStoreId, dto) ==
  /\ validateDataStoreExists(dataStoreId)
  /\ dto.name \notin columnNames(columns)
  /\ columns' = repoAddColumn(columns, dto)
  /\ deleted' = deleted \ {dto.name}
  /\ UNCHANGED <<write, read, stores, rename>>

moveColumn(dataStoreId, columnId, dto) ==
  /\ validateDataStoreExists(dataStoreId)
  /\ \E i \in 1..Len(columns) : columns[i].id = columnId
  /\ dto.targetIndex < Len(columns)
  /\ columns' = repoMoveColumn(columns, columnId, dto.targetIndex)
  /\ UNCHANGED <<write, read, deleted, stores, rename>>

\* Faulty variant: the column is found but the repository's deleteColumn is not
\* awaited, and the request returns true with the column still there.
deleteColumn_NotApplied(dataStoreId, columnId) ==
  /\ validateDataStoreExists(dataStoreId)
  /\ \E i \in 1..Len(columns) :
       /\ columns[i].id = columnId
       /\ deleted' = deleted \cup {columns[i].name}
  /\ UNCHANGED <<columns, write, read, stores, rename>>

deleteColumn(dataStoreId, columnId) ==
  /\ validateDataStoreExists(dataStoreId)
  /\ \E i \in 1..Len(columns) :
       /\ columns[i].id = columnId
       /\ columns' = repoDeleteColumn(columns, columns[i])
       /\ deleted' = deleted \cup {columns[i].name}
  /\ UNCHANGED <<write, read, stores, rename>>

(***************************************************************************)
(* createDataStore / updateDataStore / deleteDataStore. A request of a     *)
(* client stands at an await between its calls on the metadata repository. *)
(***************************************************************************)
MaxStores == 2

Clients == {"c1", "c2"}
Projects == {"P1", "P2"}
DtoNames == {"orders", "orders ", " "}

\* String.prototype.trim on the names of the model.
Trim(name) ==
  CASE name = "orders " -> "orders"
    [] name = " " -> ""
    [] OTHER -> name

NoRequest == [op |-> "none", pc |-> "idle", id |-> 0, projectId |-> "", name |-> "", err |-> ""]
Failed(op, msg) == [NoRequest EXCEPT !.op = op, !.pc = "failed", !.err = msg]
Returned(c) == rename[c].pc \in {"idle", "done", "failed"}

\* findOneBy({name, projectId}) / existsBy({name, projectId})
existsBy(name, projectId) == \E s \in stores : s.name = name /\ s.projectId = projectId

\* dataStoreRepository.createDataStore: a new row under an unused id.
repoCreateDataStore(projectId, name) ==
  LET id == CHOOSE i \in 1..MaxStores :
              /\ \A s \in stores : s.id # i
              /\ \A j \in 1..MaxStores : (\A s \in stores : s.id # j) => i <= j
  IN stores \cup {[id |-> id, name |-> name, projectId |-> projectId]}

\* dataStoreRepository.update({id}, {name})
repoUpdate(id, name) == {IF s.id = id THEN [s EXCEPT !.name = name] ELSE s : s \in stores}

createDataStoreFind(c, projectId, dto) ==
  /\ Returned(c)
  /\ rename' = [rename EXCEPT ![c] =
       IF existsBy(dto.name, projectId)
       THEN Failed("create", "already exists in this project")
       ELSE [NoRequest EXCEPT !.op = "create", !.pc = "creating",
                              !.projectId = projectId, !.name = dto.name]]
  /\ UNCHANGED <<columns, write, read, deleted, stores>>

createDataStoreCreate(c) ==
  /\ rename[c].op = "create" /\ rename[c].pc = "creating"
  /\ Cardinality(stores) < MaxStores
  /\ stores' = repoCreateDataStore(rename[c].projectId, rename[c].name)
  /\ rename' = [rename EXCEPT ![c].pc = "done"]
  /\ UNCHANGED <<columns, write, read, deleted>>

updateDataStoreFind(c, dataStoreId, dto) ==
  /\ Returned(c)
  /\ LET name == Trim(dto.name) IN
     rename' = [rename EXCEPT ![c] =
       IF name = "" THEN Failed("update", "name must not be empty")
       ELSE IF ~ \E s \in stores : s.id = dataStoreId
         THEN Failed("update", "tried to rename non-existent data store")
       ELSE [NoRequest EXCEPT !.op = "update", !.pc = "found", !.id = dataStoreId, !.name = name,
               !.projectId = (CHOOSE s \in stores : s.id = dataStoreId).projectId]]
  /\ UNCHANGED <<columns, write, read, deleted, stores>>

updateDataStoreClash(c) ==
  /\ rename[c].op = "update" /\ rename[c].pc = "found"
  /\ rename' = [rename EXCEPT ![c] =
       IF existsBy(rename[c].name, rename[c].projectId)
       THEN Failed("update", "name is already taken within this project")
       ELSE [rename[c] EXCEPT !.pc = "updating"]]
  /\ UNCHANGED <<columns, write, read, deleted, stores>>

updateDataStoreUpdate(c) ==
  /\ rename[c].op = "update" /\ rename[c].pc = "updating"
  /\ stores' = repoUpdate(rename[c].id, rename[c].name)
  /\ rename' = [rename EXCEPT ![c].pc = "done"]
  /\ UNCHANGED <<columns, write, read, deleted>>

deleteDataStore(dataStoreId) ==
  /\ validateDataStoreExists(dataStoreId)
  /\ stores' = {s \in stores : s.id # dataStoreId}
  /\ UNCHANGED <<columns, write, read, deleted, rename>>

deleteDataStoreByProjectId(projectId) ==
  /\ stores' = {s \in stores : s.projectId # projectId}
  /\ UNCHANGED <<columns, write, read, deleted, rename>>

deleteDataStoreAll ==
  /\ stores' = {}
  /\ UNCHANGED <<columns, write, read, deleted, rename>>

(***************************************************************************)
(* Specifications.                                                         *)
(***************************************************************************)
\* Rows written to and read from a data store whose schema stays as it was
\* created.
Init ==
  /\ stores = {DataStore}
  /\ columns \in Schemas
  /\ write = NoWrite
  /\ read = NoRead
  /\ deleted = {}
  /\ rename = [c \in Clients |-> NoRequest]

Next ==
  \/ Idle /\ \E rows \in Batches : insertRowsValidate(rows)
  \/ insertRowsStore
  \/ Idle /\ \E dto \in UpsertDtos(Batches) : upsertRowsValidate(dto)
  \/ upsertRowsStore
  \/ requestReturns
  \/ \E page \in Pages, legacy \in EngineParsers : getManyRowsAndCount(page, legacy)

Spec == Init /\ [][Next]_vars

\* Rows written while other requests edit the columns of the data store.
InitEdits ==
  /\ stores = {DataStore}
  /\ columns = <<>>
  /\ write = NoWrite
  /\ read = NoRead
  /\ deleted = {}
  /\ rename = [c \in Clients |-> NoRequest]

NextEdits ==
  \/ Idle /\ \E rows \in EditBatches : insertRowsValidate(rows)
  \/ insertRowsStore
  \/ Idle /\ \E dto \in UpsertDtos(EditBatches) : upsertRowsValidate(dto)
  \/ upsertRowsStore
  \/ requestReturns
  \/ \E dto \in AddColumnDtos : addColumn(DataStore.id, dto)
  \/ \E id \in SchemaNames, target \in 0..1 : moveColumn(DataStore.id, id, [targetIndex |-> target])
  \/ \E id \in SchemaNames : deleteColumn(DataStore.id, id)

SpecEdits == InitEdits /\ [][NextEdits]_vars

\* Data stores created, renamed and deleted by concurrent clients.
InitNames ==
  /\ stores = {}
  /\ columns = <<>>
  /\ write = NoWrite
  /\ read = NoRead
  /\ deleted = {}
  /\ rename = [c \in Clients |-> NoRequest]

NextNames ==
  \/ \E c \in Clients, p \in Projects, n \in DtoNames :
       createDataStoreFind(c, p, [name |-> n, columns |-> <<>>])
  \/ \E c \in Clients : createDataStoreCreate(c)
  \/ \E c \in Clients, id \in 1..MaxStores, n \in DtoNames :
       updateDataStoreFind(c, id, [name |-> n])
  \/ \E c \in Clients : updateDataStoreClash(c)
  \/ \E c \in Clients : updateDataStoreUpdate(c)
  \/ \E id \in 1..MaxStores : deleteDataStore(id)
  \/ \E p \in Projects : deleteDataStoreByProjectId(p)
  \/ deleteDataStoreAll

SpecNames == InitNames /\ [][NextNames]_vars


(***************************************************************************)
(* What the claims speak of, stated apart from the validator: which cells  *)
(* and rows conform to a schema, and where a batch first departs from it.  *)
(***************************************************************************)
Answered == write.pc # "idle"
Rejected == write.pc = "failed" /\ write.err # NoError /\ ~write.call.made

KeysOf(row) == {row[i].key : i \in 1..Len(row)}

\* A non-null value a column of this type takes: of the type's runtime
\* representation, a Date being one that has an ISO-8601 form.
Typed(type, value) == value.t = type /\ (type = "date" => value.v # NaN)

Conforms(cols, cell) ==
  /\ cell.key \in columnNames(cols)
  /\ cell.value = Null \/ Typed(typeOf(cols, cell.key), cell.value)

RowConforms(cols, row) ==
  /\ Len(row) = Len(cols)
  /\ \A i \in 1..Len(row) : Conforms(cols, row[i])

BatchConforms(cols, rows) == \A r \in 1..Len(rows) : RowConforms(cols, rows[r])

\* The first row of the batch that does not conform (0: none), and the first
\* entry of a row that does not (0: none).
FirstBadRow(cols, rows) ==
  IF BatchConforms(cols, rows) THEN 0
  ELSE CHOOSE r \in 1..Len(rows) :
         /\ ~RowConforms(cols, rows[r])
         /\ \A q \in 1..(r - 1) : RowConforms(cols, rows[q])

FirstBadCell(cols, row) ==
  IF \A i \in 1..Len(row) : Conforms(cols, row[i]) THEN 0
  ELSE CHOOSE i \in 1..Len(row) :
         /\ ~Conforms(cols, row[i])
         /\ \A j \in 1..(i - 1) : Conforms(cols, row[j])

\* The check that fails first is the key count of a row / an undeclared key.
CountFailsFirst(cols, rows) ==
  /\ Len(cols) > 0
  /\ FirstBadRow(cols, rows) > 0
  /\ Len(rows[FirstBadRow(cols, rows)]) # Len(cols)

FirstOffence(cols, rows) ==
  LET row == rows[FirstBadRow(cols, rows)] IN row[FirstBadCell(cols, row)]

CellFailsFirst(cols, rows) ==
  /\ Len(cols) > 0
  /\ FirstBadRow(cols, rows) > 0
  /\ Len(rows[FirstBadRow(cols, rows)]) = Len(cols)

UnknownKeyFailsFirst(cols, rows) ==
  /\ CellFailsFirst(cols, rows)
  /\ FirstOffence(cols, rows).key \notin columnNames(cols)

\* The batch with every cell of a 'date' column replaced by its ISO string.
DatesRewritten(cols, rows) ==
  [r \in 1..Len(rows) |->
    [i \in 1..Len(rows[r]) |->
      IF typeOf(cols, rows[r][i].key) = "date" /\ rows[r][i].value # Null
      THEN Cell(rows[r][i].key, Str(toISOString(rows[r][i].value.v)))
      ELSE rows[r][i]]]

(***************************************************************************)
(* The claims.                                                             *)
(***************************************************************************)

\* C1 (as claimed): for a schema of k >= 1 columns and a batch whose rows
\* each hold exactly the k column names, every cell a non-null value of its
\* column's type, validateRows succeeds and the rows handed to storage are
\* the input with every 'date' cell replaced by its ISO-8601 string.
\* Refuted by a Date that is the Invalid Date: it is `instanceof Date`, and
\* toISOString throws a RangeError on it.
C1_TypedBatchAccepted ==
  (/\ Answered
   /\ Len(write.vcols) >= 1
   /\ \A r \in 1..Len(write.input) :
        /\ KeysOf(write.input[r]) = columnNames(write.vcols)
        /\ \A i \in 1..Len(write.input[r]) :
             write.input[r][i].value.t = typeOf(write.vcols, write.input[r][i].key))
  => /\ write.err = NoError
     /\ write.rows = DatesRewritten(write.vcols, write.input)
     /\ write.call.made => write.call.rows = write.rows

\* C2 (as claimed): a batch holding a row whose key count differs from the
\* schema's column count fails with 'mismatched key count', whichever keys
\* differ. Stated here for the schemas that have a column (the empty schema
\* refutes it at once with 'No columns found').
C2_CountMismatchAlwaysReported ==
  (Answered /\ Len(write.vcols) > 0 /\ \E r \in 1..Len(write.input) : Len(write.input[r]) # Len(write.vcols))
  => write.err = MismatchedKeyCount

\* C2 (amended): a batch holding a row whose key count differs from the
\* schema's column count is rejected and nothing is stored; the error is
\* 'mismatched key count' exactly when the schema is non-empty and the first
\* row of the batch that is rejected is one with a differing key count.
C2_CountMismatchRejected ==
  (Answered /\ \E r \in 1..Len(write.input) : Len(write.input[r]) # Len(write.vcols))
  => /\ Rejected
     /\ write.err = MismatchedKeyCount <=> CountFailsFirst(write.vcols, write.input)

\* C2 witness: a second row of the wrong key count, after a row that passed,
\* was rejected with 'mismatched key count'.
C2_Witness ==
  /\ Rejected
  /\ write.err = MismatchedKeyCount
  /\ Len(write.input) >= 2
  /\ RowConforms(write.vcols, write.input[1])
  /\ Len(write.input[2]) # Len(write.vcols)

\* C3 (as claimed): a batch holding a row with a key that is no declared
\* column name fails with 'unknown column name'. Stated here for the schemas
\* that have a column (the empty schema refutes it at once with 'No columns
\* found').
C3_UnknownKeyAlwaysReported ==
  (Answered /\ Len(write.vcols) > 0 /\ \E r \in 1..Len(write.input) : ~(KeysOf(write.input[r]) \subseteq columnNames(write.vcols)))
  => write.err = UnknownColumnName

\* C3 (amended): a batch holding a row with a key that is no declared column
\* name is rejected and nothing is stored; the error is 'unknown column name'
\* exactly when the schema is non-empty, the first row that is rejected has
\* as many keys as the schema has columns, and the first of its entries that
\* is rejected is an undeclared key.
C3_UnknownKeyRejected ==
  (Answered /\ \E r \in 1..Len(write.input) : ~(KeysOf(write.input[r]) \subseteq columnNames(write.vcols)))
  => /\ Rejected
     /\ write.err = UnknownColumnName <=> UnknownKeyFailsFirst(write.vcols, write.input)

\* C3 witness: an undeclared key that follows a conforming entry in a row of
\* the right key count was rejected with 'unknown column name'.
C3_Witness ==
  /\ Rejected
  /\ write.err = UnknownColumnName
  /\ Len(write.input) = 1
  /\ Len(write.input[1]) = 2
  /\ Conforms(write.vcols, write.input[1][1])
  /\ write.input[1][1].value # Null
  /\ write.input[1][2].key \notin columnNames(write.vcols)

\* C4: the row repository's insert / upsert is called only if every row of
\* the batch passed validation; a batch with a row that violates the schema,
\* at any position, fails and none of its rows is stored.
C4_NoPartialCommit ==
  /\ write.call.made =>
       /\ Len(write.vcols) > 0
       /\ BatchConforms(write.vcols, write.input)
       /\ write.err = NoError
  /\ (Answered /\ ~BatchConforms(write.vcols, write.input)) => Rejected

\* C4 witness: a batch whose first row conforms and whose second does not
\* was rejected with nothing stored.
C4_Witness ==
  /\ Rejected
  /\ Len(write.input) = 2
  /\ RowConforms(write.vcols, write.input[1])
  /\ Len(write.input[1]) > 0
  /\ ~RowConforms(write.vcols, write.input[2])

\* C9 (as claimed): when validateRows fails on a batch, every cell of every
\* row of the caller's batch still holds its original value.
\* Refuted: a 'date' cell checked before the failing one has been replaced
\* by its ISO string in the caller's row.
C9_RejectedBatchUntouched ==
  write.pc = "failed" => write.rows = write.input


\* C5 (as claimed): after a successful deleteColumn of column c, a later
\* insertRows with a row that still holds c's name as a key fails with
\* 'unknown column name'. Stated here for the stores that still have a
\* column and for the names no addColumn has brought back.
C5_DeletedKeyAlwaysUnknown ==
  (/\ Answered
   /\ Len(write.vcols) > 0
   /\ \E r \in 1..Len(write.input) : KeysOf(write.input[r]) \cap write.deletedBefore # {})
  => write.err = UnknownColumnName

\* C5 (amended): after a successful deleteColumn of column c, and until a
\* column of that name is added again, the schema a later insertRows or
\* upsertRows validates against does not hold c, and a batch with a row that
\* still holds c's name as a key is rejected and nothing is stored; the error
\* is 'unknown column name' exactly when the store still has a column, the
\* first row that is rejected has as many keys as the store has columns, and
\* the first of its entries that is rejected is an undeclared key.
C5_DeletedKeyRejected ==
  /\ Answered => write.deletedBefore \cap columnNames(write.vcols) = {}
  /\ (Answered /\ \E r \in 1..Len(write.input) : KeysOf(write.input[r]) \cap write.deletedBefore # {})
     => /\ Rejected
        /\ write.err = UnknownColumnName <=> UnknownKeyFailsFirst(write.vcols, write.input)

\* C5 witness: a row holding the name of a deleted column, and as many keys
\* as the store has columns left, was rejected with 'unknown column name'.
C5_Witness ==
  /\ Rejected
  /\ write.err = UnknownColumnName
  /\ write.op = "insert"
  /\ Len(write.vcols) = 1
  /\ \E r \in 1..Len(write.input) : KeysOf(write.input[r]) \cap write.deletedBefore # {}

\* C6 (as claimed): in every state reachable by createDataStore and
\* updateDataStore calls, those of concurrent requests included, no two data
\* stores of one project have the same name.
\* Refuted: two requests pass the existence check before either creates.
C6_NameUniqueInProject ==
  \A s1, s2 \in stores :
    (s1.id # s2.id /\ s1.projectId = s2.projectId) => s1.name # s2.name

\* The boolean a raw value stands for on the read path, as the claim lists it.
LenientBoolean(raw) ==
  CASE raw \in {Bool("true"), Bool("false")} -> raw
    [] raw \in {Num("1"), Str("1")} -> Bool("true")
    [] raw \in {Num("0"), Str("0")} -> Bool("false")
    [] OTHER -> Null

\* C7: boolean columns are strict on write and lenient on read. A batch with
\* a non-null non-boolean cell in a 'boolean' column is rejected, with the
\* boolean type-mismatch error naming the value when that cell is the first
\* thing rejected; normalizeRows maps a raw cell of a 'boolean' column to
\* itself when it is a boolean, 1 and '1' to true, 0 and '0' to false, and
\* every other raw value to null.
C7_BooleanStrictWriteLenientRead ==
  /\ \A r \in 1..Len(write.input) : \A i \in 1..Len(write.input[r]) :
       LET cell == write.input[r][i] IN
       (/\ Answered
        /\ typeOf(write.vcols, cell.key) = "boolean"
        /\ cell.value # Null
        /\ cell.value.t # "boolean")
       => /\ Rejected
          /\ (/\ CellFailsFirst(write.vcols, write.input)
              /\ FirstBadRow(write.vcols, write.input) = r
              /\ FirstBadCell(write.vcols, write.input[r]) = i)
             => write.err = TypeMismatch(cell.value, "boolean")
  /\ read.done =>
       \A i \in 1..Len(read.raw[1]) :
         typeOf(read.cols, read.raw[1][i].key) = "boolean"
         => read.data[1][i] = Cell(read.raw[1][i].key, LenientBoolean(read.raw[1][i].value))

\* C7 witness: the number 1 in a 'boolean' column was rejected on write with
\* the boolean type mismatch naming it.
C7_Witness ==
  /\ Rejected
  /\ write.err = TypeMismatch(Num("1"), "boolean")
  /\ \E r \in 1..Len(write.input) : \E i \in 1..Len(write.input[r]) :
       /\ write.input[r][i].value = Num("1")
       /\ typeOf(write.vcols, write.input[r][i].key) = "boolean"

\* C8: a row accepted by validateRows and stored, then read back against the
\* same schema in any equivalent raw representation, comes back from
\* normalizeRows with the original value in every 'string', 'number' and
\* 'boolean' cell and a valid date in every non-null 'date' cell.
C8_RoundTrip ==
  (read.done /\ read.src > 0 /\ write.call.made /\ read.cols = write.vcols)
  => \A i \in 1..Len(read.data[1]) :
       LET original == write.input[read.src][i]
           got == read.data[1][i]
           type == typeOf(read.cols, original.key)
       IN /\ got.key = original.key
          /\ type \in {"string", "number", "boolean"} => got.value = original.value
          /\ (type = "date" /\ original.value # Null)
             => got.value.t = "date" /\ got.value.v # NaN

\* C8 witness: a stored row with a boolean the engine returned as a number
\* and a date the engine returned as its ISO string was read back.
C8_Witness ==
  /\ read.done /\ read.src > 0 /\ write.call.made /\ read.cols = write.vcols
  /\ \E i, j \in 1..Len(read.raw[1]) :
       /\ typeOf(read.cols, read.raw[1][i].key) = "boolean"
       /\ read.raw[1][i].value = Num("1")
       /\ typeOf(read.cols, read.raw[1][j].key) = "date"
       /\ read.raw[1][j].value = Str(Iso0)

\* C10 (as claimed): in every insertRows / upsertRows that reaches the row
\* repository, the column list passed to insert / upsert is the one
\* validateRows used, so every stored row's key set is the set of column
\* names passed with it (stated here by that consequence: a reordered list
\* alone does not refute it).
\* Refuted: the service fetches the columns a second time after validation,
\* and a column edit between the two fetches changes the list.
C10_StoredSchemaIsValidatedSchema ==
  write.call.made =>
    \A r \in 1..Len(write.call.rows) :
      KeysOf(write.call.rows[r]) = columnNames(write.call.columns)

=============================================================================
